---- MODULE Spec2Model ----
(***************************************************************************)
(* Apparent polar wander simulation (apparent_polar_wander_simulation.py). *)
(*                                                                         *)
(* The program is a pure numerical computation.  The model computes it in  *)
(* exact arithmetic over the field Q(sqrt 3): a number is <<a, b, d>>,     *)
(* standing for (a + b*sqrt(3)) / d with d > 0 and gcd(a, b, d) = 1.  The  *)
(* sines and cosines of all multiples of 30 degrees lie in this field, so  *)
(* rotations about oblique axes by such angles are computed exactly.  The  *)
(* float NaN (the result of 0/0) is the triple with d = 0.  Radians are    *)
(* carried in units of pi (deg2rad divides by 180).                        *)
(***************************************************************************)
EXTENDS Integers, Sequences, FiniteSets, TLC

VARIABLES
    pc,                  \* position of the running call
    params,              \* PlateMotionParameters of the simulate call
    continent_present,   \* <<continent_present_lat, continent_present_lon>>
    axis,                \* simulate_plate_motion: axis
    pole_vector,         \* simulate_plate_motion: pole_vector
    continent_vector,    \* simulate_plate_motion: continent_vector
    time,                \* simulate_plate_motion: time
    rotation_angles,     \* simulate_plate_motion: rotation_angles
    continent_lat_lon,   \* simulate_plate_motion: continent_lat_lon
    apparent_lat_lon,    \* simulate_plate_motion: apparent_lat_lon
    i,                   \* loop index of enumerate(rotation_angles), 0-based
    written,             \* history: the indices the loop has assigned
    result,              \* the returned SimulationResult, or the exception raised
    rm_axis,             \* rotation_matrix called directly: axis argument
    rm_angle,            \* rotation_matrix called directly: angle_rad argument
    rm_vector,           \* a vector the returned matrix is applied to
    rm_matrix,           \* what rotation_matrix returned
    rm_forward,          \* rot @ rm_vector
    rm_back,             \* rot.T @ (rot @ rm_vector)
    max_rows,            \* format_summary_table: max_rows argument
    indices,             \* format_summary_table: indices
    lines                \* format_summary_table: lines after the two header lines

vars == <<pc, params, continent_present, axis, pole_vector, continent_vector,
          time, rotation_angles, continent_lat_lon, apparent_lat_lon, i,
          written, result, rm_axis, rm_angle, rm_vector, rm_matrix,
          rm_forward, rm_back, max_rows, indices, lines>>

(* Bounds of the inputs.                                                   *)

\* Largest time_steps of a simulation.
MaxSteps == 4

\* Largest time_steps of a simulation whose table is printed.
MaxSamples == 8

\* Largest max_rows of format_summary_table.
MaxRows == 9

----------------------------------------------------------------------------
(* Exact arithmetic standing for the program's float64 arithmetic.         *)

Abs(x) == IF x < 0 THEN -x ELSE x

RECURSIVE GCD(_, _)
GCD(m, n) == IF n = 0 THEN m ELSE GCD(n, m % n)

NaN == <<0, 0, 0>>

IsNaN(p) == p[3] = 0

\* (a + b*sqrt 3)/d in lowest terms with a positive denominator.
Q(a, b, d) ==
    IF d = 0 THEN NaN
    ELSE LET g == GCD(GCD(Abs(a), Abs(b)), Abs(d))
             s == IF d < 0 THEN -1 ELSE 1
         IN  <<(s * a) \div g, (s * b) \div g, (s * d) \div g>>

Num(n) == <<n, 0, 1>>

Rat(n, d) == Q(n, 0, d)

Zero == Num(0)

One == Num(1)

IsZero(p) == p[3] # 0 /\ p[1] = 0 /\ p[2] = 0

Add(p, q) ==
    IF IsNaN(p) \/ IsNaN(q) THEN NaN
    ELSE Q(p[1] * q[3] + q[1] * p[3], p[2] * q[3] + q[2] * p[3], p[3] * q[3])

Neg(p) == IF IsNaN(p) THEN NaN ELSE <<-p[1], -p[2], p[3]>>

Sub(p, q) == Add(p, Neg(q))

Mul(p, q) ==
    IF IsNaN(p) \/ IsNaN(q) THEN NaN
    ELSE Q(p[1] * q[1] + 3 * p[2] * q[2], p[1] * q[2] + p[2] * q[1], p[3] * q[3])

\* Float division.  The only division by zero the program performs is 0/0
\* (a zero axis over its zero norm), which numpy evaluates to NaN.
Div(p, q) ==
    IF IsNaN(p) \/ IsNaN(q) THEN NaN
    ELSE IF IsZero(q) THEN NaN
    ELSE Mul(p, Q(q[3] * q[1], -(q[3] * q[2]), q[1] * q[1] - 3 * q[2] * q[2]))

\* The sign of a + b*sqrt 3 (d > 0): -1, 0 or 1.
Sign(p) ==
    LET a == p[1]
        b == p[2]
    IN  IF a = 0 /\ b = 0 THEN 0
        ELSE IF a >= 0 /\ b >= 0 THEN 1
        ELSE IF a <= 0 /\ b <= 0 THEN -1
        ELSE IF a > 0 THEN (IF a * a > 3 * b * b THEN 1 ELSE -1)
        ELSE (IF 3 * b * b > a * a THEN 1 ELSE -1)

\* Comparisons with a NaN are false, as in IEEE arithmetic.
Less(p, q) == ~IsNaN(p) /\ ~IsNaN(q) /\ Sign(Sub(p, q)) < 0

\* The integer square root of a perfect square.
ISqrt(n) == CHOOSE m \in 0..n : m * m = n

IsSquare(n) == \E m \in 0..n : m * m = n

\* The square root of a rational a/d = (a*d)/d^2 with a*d a perfect square,
\* or three times one: the norms of the axes the model is run on.
Sqrt(p) ==
    IF IsNaN(p) THEN NaN
    ELSE IF IsSquare(p[1] * p[3]) THEN Q(ISqrt(p[1] * p[3]), 0, p[3])
    ELSE Q(0, ISqrt((p[1] * p[3]) \div 3), p[3])

----------------------------------------------------------------------------
(* numpy's scalar functions.  An angle in radians is carried in units of   *)
(* pi, so np.deg2rad divides by 180 and np.rad2deg multiplies by 180.      *)

deg2rad(x) == Div(x, Num(180))

\* The angle r (units of pi) as a count of twelfths of a turn, when it is a
\* multiple of 30 degrees.
OnGrid(r) == ~IsNaN(r) /\ r[2] = 0 /\ 6 % r[3] = 0

Twelfths(r) == (r[1] * (6 \div r[3])) % 12

CosTable ==
    <<One, Q(0, 1, 2), Q(1, 0, 2), Zero, Q(-1, 0, 2), Q(0, -1, 2),
      Neg(One), Q(0, -1, 2), Q(-1, 0, 2), Zero, Q(1, 0, 2), Q(0, 1, 2)>>

cos(r) == IF IsNaN(r) THEN NaN ELSE CosTable[Twelfths(r) + 1]

sin(r) == IF IsNaN(r) THEN NaN ELSE CosTable[((Twelfths(r) + 9) % 12) + 1]

\* np.clip(z, lo, hi)
clip(z, lo, hi) == IF Less(z, lo) THEN lo ELSE IF Less(hi, z) THEN hi ELSE z

(* A float that an inverse trigonometric function returns need not lie in  *)
(* the field.  Such a float is <<tag, a, b, d, sx>>: "num" is the field's  *)
(* own (a + b*sqrt 3)/d; "arcsin" is the arcsine of that number, in        *)
(* radians; "arctan2" is the angle of a direction with tangent that number *)
(* and x of sign sx; "deg_..." are the same angles in degrees.  The        *)
(* representation is canonical: two floats are equal iff their tuples are. *)

F(p) == <<"num", p[1], p[2], p[3], 0>>

\* np.arcsin, for z in [-1, 1]
arcsin(z) ==
    IF IsNaN(z) THEN F(NaN)
    ELSE IF \E m \in -3..3 : sin(Rat(m, 6)) = z
         THEN F(Rat(CHOOSE m \in -3..3 : sin(Rat(m, 6)) = z, 6))
         ELSE <<"arcsin", z[1], z[2], z[3], 0>>

\* Whether (x, y) points in the direction of the angle m*30 degrees.
Towards(m, y, x) ==
    /\ IsZero(Sub(Mul(x, sin(Rat(m, 6))), Mul(y, cos(Rat(m, 6)))))
    /\ Sign(Add(Mul(x, cos(Rat(m, 6))), Mul(y, sin(Rat(m, 6))))) > 0

\* np.arctan2(y, x), in (-pi, pi]; arctan2(0, 0) = 0
arctan2(y, x) ==
    IF IsNaN(y) \/ IsNaN(x) THEN F(NaN)
    ELSE IF IsZero(x) /\ IsZero(y) THEN F(Zero)
    ELSE IF \E m \in -5..6 : Towards(m, y, x)
         THEN F(Rat(CHOOSE m \in -5..6 : Towards(m, y, x), 6))
         ELSE LET t == Div(y, x) IN <<"arctan2", t[1], t[2], t[3], Sign(x)>>

rad2deg(e) ==
    IF e[1] = "num" THEN F(Mul(<<e[2], e[3], e[4]>>, Num(180)))
    ELSE <<IF e[1] = "arcsin" THEN "deg_arcsin" ELSE "deg_arctan2",
           e[2], e[3], e[4], e[5]>>

\* The norm without its square root.
norm_squared(v) == Add(Add(Mul(v[1], v[1]), Mul(v[2], v[2])), Mul(v[3], v[3]))

\* np.linalg.norm of a 3-vector
norm(v) == Sqrt(Add(Add(Mul(v[1], v[1]), Mul(v[2], v[2])), Mul(v[3], v[3])))

\* matrix @ vector
MatVec(M, v) ==
    [r \in 1..3 |->
        Add(Add(Mul(M[r][1], v[1]), Mul(M[r][2], v[2])), Mul(M[r][3], v[3]))]

\* matrix.T
Transpose(M) == [r \in 1..3 |-> [c \in 1..3 |-> M[c][r]]]

----------------------------------------------------------------------------
(* The program's functions.                                                *)

rotation_matrix(axis_arg, angle_rad) ==
    LET n == norm(axis_arg)
        x == Div(axis_arg[1], n)
        y == Div(axis_arg[2], n)
        z == Div(axis_arg[3], n)
        c == cos(angle_rad)
        s == sin(angle_rad)
        C == Sub(One, c)
    IN  << <<Add(c, Mul(Mul(x, x), C)),
             Sub(Mul(Mul(x, y), C), Mul(z, s)),
             Add(Mul(Mul(x, z), C), Mul(y, s))>>,
           <<Add(Mul(Mul(y, x), C), Mul(z, s)),
             Add(c, Mul(Mul(y, y), C)),
             Sub(Mul(Mul(y, z), C), Mul(x, s))>>,
           <<Sub(Mul(Mul(z, x), C), Mul(y, s)),
             Add(Mul(Mul(z, y), C), Mul(x, s)),
             Add(c, Mul(Mul(z, z), C))>> >>

spherical_to_cartesian(lat_deg, lon_deg) ==
    LET lat == deg2rad(lat_deg)
        lon == deg2rad(lon_deg)
        x == Mul(cos(lat), cos(lon))
        y == Mul(cos(lat), sin(lon))
        z == sin(lat)
    IN  <<x, y, z>>

\* The arguments of arctan2 in the wrong order.
cartesian_to_spherical_swapped(vector) ==
    <<rad2deg(arcsin(clip(vector[3], Neg(One), One))),
      rad2deg(arctan2(vector[1], vector[2]))>>

cartesian_to_spherical(vector) ==
    LET x == vector[1]
        y == vector[2]
        z == vector[3]
        lat == rad2deg(arcsin(clip(z, Neg(One), One)))
        lon == rad2deg(arctan2(y, x))
    IN  <<lat, lon>>

\* np.linspace with endpoint=False: num points that stop short of stop.
linspace_open(start, stop, num) ==
    [k \in 1..num |-> Add(start, Mul(Num(k - 1), Div(Sub(stop, start), Num(num))))]

\* np.linspace(start, stop, num) with endpoint=True, for num >= 0
\* (num < 0 raises ValueError: see Setup)
linspace(start, stop, num) ==
    LET div == num - 1
        delta == Sub(stop, start)
        step == Div(delta, Num(div))
        y(k) == IF div > 0
                THEN IF IsZero(step)
                     THEN Mul(Div(Num(k), Num(div)), delta)
                     ELSE Mul(Num(k), step)
                ELSE Mul(Num(k), delta)
    IN  [k \in 1..num |->
            IF num > 1 /\ k = num THEN stop ELSE Add(y(k - 1), start)]

\* np.zeros((n, 2))
zeros(n) == [k \in 1..n |-> <<F(Zero), F(Zero)>>]

\* ndarray.astype(int) of a rational: truncation towards zero
astype_int(p) == IF p[1] >= 0 THEN p[1] \div p[3] ELSE -((-p[1]) \div p[3])

min(a, b) == IF a < b THEN a ELSE b

----------------------------------------------------------------------------
(* simulate_plate_motion                                                    *)

\* rotation_angles = np.deg2rad(angular_velocity_deg_per_myr * time)
RotationAngles(p, t) ==
    [k \in 1..Len(t) |-> deg2rad(Mul(p.angular_velocity_deg_per_myr, t[k]))]

\* The rotation applied twice.
PastContinentTwice(rot, v) == cartesian_to_spherical(MatVec(rot, MatVec(rot, v)))

\* past_continent = rot @ continent_vector, as latitude and longitude
PastContinent(rot, v) == cartesian_to_spherical(MatVec(rot, v))

\* The forward rotation in place of its transpose.
ApparentPoleForward(rot, v) == cartesian_to_spherical(MatVec(rot, v))

\* apparent_pole = rot.T @ pole_vector, as latitude and longitude
ApparentPole(rot, v) == cartesian_to_spherical(MatVec(Transpose(rot), v))

\* The loop left one iteration early.
LoopDoneEarly(k, angles) == k >= Len(angles) - 1

\* enumerate(rotation_angles) is exhausted
LoopDone(k, angles) == k >= Len(angles)

\* Lines 93-102: the vectors, the time grid, the angles and the zeroed arrays.
\* np.linspace raises ValueError for a negative number of samples.
Setup ==
    /\ pc = "start"
    /\ axis' = spherical_to_cartesian(params.rotation_axis_lat,
                                      params.rotation_axis_lon)
    /\ pole_vector' = <<Zero, Zero, One>>
    /\ continent_vector' = spherical_to_cartesian(continent_present[1],
                                                  continent_present[2])
    /\ IF params.time_steps < 0
       THEN /\ pc' = "raised"
            /\ result' = [exception |-> "ValueError"]
            /\ UNCHANGED <<time, rotation_angles, continent_lat_lon,
                           apparent_lat_lon>>
       ELSE /\ pc' = "loop"
            /\ time' = linspace(Zero, params.total_time_myr, params.time_steps)
            /\ rotation_angles' = RotationAngles(params, time')
            /\ continent_lat_lon' = zeros(params.time_steps)
            /\ apparent_lat_lon' = zeros(params.time_steps)
            /\ UNCHANGED result
    /\ UNCHANGED <<params, continent_present, i, written, rm_axis, rm_angle,
                   rm_vector, rm_matrix, rm_forward, rm_back, max_rows,
                   indices, lines>>

\* Lines 104-109: one iteration of the loop.
LoopIteration ==
    /\ pc = "loop"
    /\ ~LoopDone(i, rotation_angles)
    /\ LET angle == rotation_angles[i + 1]
           rot == rotation_matrix(axis, angle)
       IN  /\ continent_lat_lon' =
                 [continent_lat_lon EXCEPT
                     ![i + 1] = PastContinent(rot, continent_vector)]
           /\ apparent_lat_lon' =
                 [apparent_lat_lon EXCEPT
                     ![i + 1] = ApparentPole(rot, pole_vector)]
    /\ written' = written \cup {i}
    /\ i' = i + 1
    /\ UNCHANGED <<pc, params, continent_present, axis, pole_vector,
                   continent_vector, time, rotation_angles, result, rm_axis,
                   rm_angle, rm_vector, rm_matrix, rm_forward, rm_back,
                   max_rows, indices, lines>>

\* Line 111
Return ==
    /\ pc = "loop"
    /\ LoopDone(i, rotation_angles)
    /\ result' = [time_myr |-> time,
                  continent_lat_lon |-> continent_lat_lon,
                  apparent_pole_lat_lon |-> apparent_lat_lon]
    /\ pc' = "returned"
    /\ UNCHANGED <<params, continent_present, axis, pole_vector,
                   continent_vector, time, rotation_angles, continent_lat_lon,
                   apparent_lat_lon, i, written, rm_axis, rm_angle, rm_vector,
                   rm_matrix, rm_forward, rm_back, max_rows, indices, lines>>

----------------------------------------------------------------------------
(* format_summary_table, called on the result as main() does.  A data row  *)
(* is the tuple of the five numbers it prints.                              *)

Truncated == "... (table truncated) ..."

\* The first min(max_rows, n) samples in place of a spread over all of them.
TableIndicesHead(res, rows) ==
    [k \in 1..min(rows, Len(res.time_myr)) |-> k - 1]

\* Line 218
TableIndices(res, rows) ==
    LET pts == linspace(Zero, Num(Len(res.time_myr) - 1),
                        min(rows, Len(res.time_myr)))
    IN  [k \in 1..Len(pts) |-> astype_int(pts[k])]

\* Lines 220-226
DataRow(res, idx) ==
    <<res.time_myr[idx + 1],
      res.continent_lat_lon[idx + 1][1], res.continent_lat_lon[idx + 1][2],
      res.apparent_pole_lat_lon[idx + 1][1],
      res.apparent_pole_lat_lon[idx + 1][2]>>

\* Lines 228-229
TableIsTruncated(idxs, res) == Len(idxs) < Len(res.time_myr)

FormatSummaryTable ==
    /\ pc = "returned"
    /\ \E rows \in 0..MaxRows :
          /\ max_rows' = rows
          /\ indices' = TableIndices(result, rows)
          /\ lines' = [k \in 1..Len(indices') |-> DataRow(result, indices'[k])]
                      \o (IF TableIsTruncated(indices', result)
                          THEN <<Truncated>> ELSE <<>>)
    /\ pc' = "printed"
    /\ UNCHANGED <<params, continent_present, axis, pole_vector,
                   continent_vector, time, rotation_angles, continent_lat_lon,
                   apparent_lat_lon, i, written, result, rm_axis, rm_angle,
                   rm_vector, rm_matrix, rm_forward, rm_back>>

----------------------------------------------------------------------------
(* rotation_matrix called on its own, and the matrix and its transpose     *)
(* applied to a vector as simulate_plate_motion applies them.               *)

CallRotationMatrix ==
    /\ pc = "call"
    /\ rm_matrix' = rotation_matrix(rm_axis, rm_angle)
    /\ pc' = "matrix"
    /\ UNCHANGED <<params, continent_present, axis, pole_vector,
                   continent_vector, time, rotation_angles, continent_lat_lon,
                   apparent_lat_lon, i, written, result, rm_axis, rm_angle,
                   rm_vector, rm_forward, rm_back, max_rows, indices, lines>>

ApplyRotation ==
    /\ pc = "matrix"
    /\ rm_forward' = MatVec(rm_matrix, rm_vector)
    /\ pc' = "forward"
    /\ UNCHANGED <<params, continent_present, axis, pole_vector,
                   continent_vector, time, rotation_angles, continent_lat_lon,
                   apparent_lat_lon, i, written, result, rm_axis, rm_angle,
                   rm_vector, rm_matrix, rm_back, max_rows, indices, lines>>

ApplyTranspose ==
    /\ pc = "forward"
    /\ rm_back' = MatVec(Transpose(rm_matrix), rm_forward)
    /\ pc' = "back"
    /\ UNCHANGED <<params, continent_present, axis, pole_vector,
                   continent_vector, time, rotation_angles, continent_lat_lon,
                   apparent_lat_lon, i, written, result, rm_axis, rm_angle,
                   rm_vector, rm_matrix, rm_forward, max_rows, indices, lines>>

----------------------------------------------------------------------------
(* Inputs.                                                                  *)

\* Euler poles <<rotation_axis_lat, rotation_axis_lon>>; the first is the
\* command line's default.
AxisPoints ==
    {<<60, -90>>, <<0, 0>>, <<90, 0>>, <<-30, 120>>, <<30, 30>>, <<-60, -150>>}

\* Reference points <<continent_present_lat, continent_present_lon>>, none
\* at a geographic pole: off every axis, on an axis, at the antipode of one.
\* The last has its longitude outside (-180, 180].
ReferencePoints ==
    {<<30, -30>>, <<0, 0>>, <<60, -90>>, <<30, -60>>, <<-60, 180>>,
     <<-30, 150>>, <<60, 60>>, <<30, 210>>}

\* angular_velocity_deg_per_myr: <<numerator, denominator>>
Velocities == {<<1, 2>>, <<1, 1>>, <<-1, 1>>, <<9, 1>>}

TotalTimes == {-120, 0, 10, 120, 360, 720}

Parameters(vel, ax, total, steps) ==
    [angular_velocity_deg_per_myr |-> Rat(vel[1], vel[2]),
     rotation_axis_lat |-> Num(ax[1]),
     rotation_axis_lon |-> Num(ax[2]),
     total_time_myr |-> Num(total),
     time_steps |-> steps]

\* Every rotation angle of the run is a multiple of 30 degrees.
AnglesOnGrid(p) ==
    IF p.time_steps <= 1 THEN TRUE
    ELSE OnGrid(deg2rad(Mul(p.angular_velocity_deg_per_myr,
                            Div(p.total_time_myr, Num(p.time_steps - 1)))))

Idle ==
    /\ axis = <<>>
    /\ pole_vector = <<>>
    /\ continent_vector = <<>>
    /\ time = <<>>
    /\ rotation_angles = <<>>
    /\ continent_lat_lon = <<>>
    /\ apparent_lat_lon = <<>>
    /\ i = 0
    /\ written = {}
    /\ result = [exception |-> "none"]
    /\ rm_matrix = <<>>
    /\ rm_forward = <<>>
    /\ rm_back = <<>>
    /\ max_rows = 0
    /\ indices = <<>>
    /\ lines = <<>>

NoRotationCall ==
    /\ rm_axis = <<>>
    /\ rm_angle = Zero
    /\ rm_vector = <<>>

\* A call of simulate_plate_motion.
Init ==
    /\ pc = "start"
    /\ \E vel \in Velocities, ax \in AxisPoints, total \in TotalTimes,
          steps \in -1..MaxSteps :
          /\ params = Parameters(vel, ax, total, steps)
          /\ AnglesOnGrid(params)
    /\ \E ref \in ReferencePoints : continent_present = <<Num(ref[1]), Num(ref[2])>>
    /\ Idle
    /\ NoRotationCall

Next == Setup \/ LoopIteration \/ Return

Spec == Init /\ [][Next]_vars

\* main(): a simulation, then its summary table.
InitTable ==
    /\ pc = "start"
    /\ \E vel \in {<<0, 1>>, <<1, 2>>}, steps \in 0..MaxSamples :
          /\ params = Parameters(vel, <<60, -90>>, 120, steps)
          /\ AnglesOnGrid(params)
    /\ continent_present = <<Num(30), Num(-30)>>
    /\ Idle
    /\ NoRotationCall

NextTable == Setup \/ LoopIteration \/ Return \/ FormatSummaryTable

SpecTable == InitTable /\ [][NextTable]_vars

\* Axis vectors handed to rotation_matrix: the zero vector, unit and
\* non-unit vectors.
AxisVectors ==
    {<<0, 0, 0>>, <<0, 0, 1>>, <<1, 1, 1>>, <<1, 2, 2>>, <<-2, 0, 0>>,
     <<2, -2, 2>>, <<0, -1, 0>>}

\* Angles handed to rotation_matrix, in degrees.
AngleDegrees == {-390, -90, 0, 30, 60, 120, 180, 330}

TestVectors == {<<0, 0, 1>>, <<1, 0, 0>>, <<3, -1, 2>>, <<1, 1, 0>>}

Vec(v) == <<Num(v[1]), Num(v[2]), Num(v[3])>>

InitRotation ==
    /\ pc = "call"
    /\ \E a \in AxisVectors : rm_axis = Vec(a)
    /\ \E g \in AngleDegrees : rm_angle = deg2rad(Num(g))
    /\ \E v \in TestVectors : rm_vector = Vec(v)
    /\ params = [time_steps |-> 0]
    /\ continent_present = <<>>
    /\ Idle

NextRotation == CallRotationMatrix \/ ApplyRotation \/ ApplyTranspose

SpecRotation == InitRotation /\ [][NextRotation]_vars

----------------------------------------------------------------------------
(* Properties.                                                              *)

Cross(u, v) ==
    <<Sub(Mul(u[2], v[3]), Mul(u[3], v[2])),
      Sub(Mul(u[3], v[1]), Mul(u[1], v[3])),
      Sub(Mul(u[1], v[2]), Mul(u[2], v[1]))>>

Dot(u, v) == Add(Add(Mul(u[1], v[1]), Mul(u[2], v[2])), Mul(u[3], v[3]))

\* Rodrigues' formula in vector form: v rotated by theta about the unit
\* vector k is  v cos(theta) + (k x v) sin(theta) + k (k.v) (1 - cos(theta)).
Rodrigues(k, v, theta) ==
    LET kxv == Cross(k, v)
        kv == Mul(Dot(k, v), Sub(One, cos(theta)))
    IN  [r \in 1..3 |->
            Add(Add(Mul(v[r], cos(theta)), Mul(kxv[r], sin(theta))),
                Mul(k[r], kv))]

MatMul(A, B) ==
    [r \in 1..3 |-> [c \in 1..3 |->
        Add(Add(Mul(A[r][1], B[1][c]), Mul(A[r][2], B[2][c])),
            Mul(A[r][3], B[3][c]))]]

Identity ==
    [r \in 1..3 |-> [c \in 1..3 |-> IF r = c THEN One ELSE Zero]]

\* The inputs of the simulate call as vectors and numbers.
EulerAxis ==
    spherical_to_cartesian(params.rotation_axis_lat, params.rotation_axis_lon)

ReferenceVector ==
    spherical_to_cartesian(continent_present[1], continent_present[2])

Velocity == params.angular_velocity_deg_per_myr

\* The rotation angle, in radians, at elapsed time t.
AngleAt(t) == deg2rad(Mul(Velocity, t))

\* An angle in radians (units of pi) is a whole number of turns.
FullTurns(r) == Div(r, Num(2))[2] = 0 /\ Div(r, Num(2))[3] = 1

\* The reference point is the Euler pole or its antipode.
OnAxis ==
    \A r \in 1..3 : IsZero(Cross(EulerAxis, ReferenceVector)[r])

\* Latitude in [-90, 90], longitude in (-180, 180], not at a geographic pole.
ValidReference ==
    /\ Less(Num(-90), continent_present[1])
    /\ Less(continent_present[1], Num(90))
    /\ Less(Num(-180), continent_present[2])
    /\ ~Less(Num(180), continent_present[2])

RotationReturned == pc \in {"matrix", "forward", "back"}

ZeroAxis == \A r \in 1..3 : IsZero(rm_axis[r])

\* C1: rotation_matrix called with a zero-length axis returns no matrix (it
\* fails with InvalidAxis instead).
C1_ZeroAxisRejected == ~(RotationReturned /\ ZeroAxis)

\* C2: simulate_plate_motion called with time_steps < 1 produces no
\* SimulationResult.
C2_SampleCountValidated == params.time_steps < 1 => pc # "returned"

\* C3: a returned result's three sequences all have length time_steps, and
\* the loop has assigned every index of the two coordinate sequences.
C3_LengthsAndWritten ==
    pc = "returned" =>
        /\ Len(result.time_myr) = params.time_steps
        /\ Len(result.continent_lat_lon) = params.time_steps
        /\ Len(result.apparent_pole_lat_lon) = params.time_steps
        /\ written = 0..(params.time_steps - 1)

C3_Witness ==
    /\ pc = "returned"
    /\ params.time_steps = 3
    /\ Len(result.continent_lat_lon) = 3
    /\ written = {0, 1, 2}

\* C4: in every returned result the time values strictly increase with the
\* index.
C4_Chronological ==
    pc = "returned" =>
        \A a, b \in 1..Len(result.time_myr) :
            a < b => Less(result.time_myr[a], result.time_myr[b])

\* C5: for time_steps = n >= 1 the time grid starts at 0; for n >= 2 it ends
\* at total_time_myr and its value at index k is k * total_time_myr / (n - 1);
\* for n = 1 it is the single value 0.
C5_LinearGrid ==
    pc = "returned" /\ params.time_steps >= 1 =>
        LET n == params.time_steps
            T == params.total_time_myr
        IN  /\ result.time_myr[1] = Zero
            /\ n = 1 => result.time_myr = <<Zero>>
            /\ n >= 2 =>
                  /\ result.time_myr[n] = T
                  /\ \A k \in 0..(n - 1) :
                        result.time_myr[k + 1] = Div(Mul(Num(k), T), Num(n - 1))

C5_Witness ==
    /\ pc = "returned"
    /\ params.time_steps = 4
    /\ params.total_time_myr = Num(10)
    /\ result.time_myr = <<Zero, Rat(10, 3), Rat(20, 3), Num(10)>>

\* C6: for time_steps >= 1 and a valid reference point, index 0 of a returned
\* result holds the reference point itself and an apparent pole of latitude 90.
C6_PresentDayAtIndexZero ==
    pc = "returned" /\ params.time_steps >= 1 /\ ValidReference =>
        /\ result.continent_lat_lon[1] =
              <<F(continent_present[1]), F(continent_present[2])>>
        /\ result.apparent_pole_lat_lon[1][1] = F(Num(90))

C6_Witness ==
    /\ pc = "returned"
    /\ params.time_steps = 3
    /\ Sign(Velocity) < 0
    /\ continent_present = <<Num(-60), Num(180)>>
    /\ result.continent_lat_lon[1] = <<F(Num(-60)), F(Num(180))>>
    /\ result.continent_lat_lon[3] # result.continent_lat_lon[1]

\* C7: at every index k of a returned result, the continent sample is the
\* reference vector rotated about the Euler axis by the total angle
\* velocity * time[k], and the apparent-pole sample is (0, 0, 1) rotated about
\* the same axis by minus that angle; both depend on time[k] alone.
C7_SingleTotalRotation ==
    pc = "returned" =>
        \A k \in 1..Len(result.time_myr) :
            LET theta == AngleAt(result.time_myr[k])
            IN  /\ result.continent_lat_lon[k] =
                      cartesian_to_spherical(
                          Rodrigues(EulerAxis, ReferenceVector, theta))
                /\ result.apparent_pole_lat_lon[k] =
                      cartesian_to_spherical(
                          Rodrigues(EulerAxis, <<Zero, Zero, One>>, Neg(theta)))

C7_Witness ==
    /\ pc = "returned"
    /\ params.time_steps = 4
    /\ ~OnAxis
    /\ \A a, b \in 1..4 :
          a # b => /\ result.continent_lat_lon[a] # result.continent_lat_lon[b]
                   /\ result.apparent_pole_lat_lon[a] # result.apparent_pole_lat_lon[b]
    /\ result.continent_lat_lon[4] # result.apparent_pole_lat_lon[4]

\* C8: for a non-zero axis the matrix rotation_matrix returns is orthogonal,
\* and its transpose applied after it gives back the vector it was applied to.
C8_Orthogonal ==
    RotationReturned /\ ~ZeroAxis =>
        /\ MatMul(rm_matrix, Transpose(rm_matrix)) = Identity
        /\ pc = "back" => rm_back = rm_vector

C8_Witness ==
    /\ pc = "back"
    /\ rm_axis = <<One, Num(2), Num(2)>>
    /\ rm_angle = deg2rad(Num(30))
    /\ rm_forward # rm_vector
    /\ rm_back = rm_vector

\* The continent coordinates at two indices of distinct time differ, unless
\* the rotation angles differ by a whole number of turns.
DistinctOrFullTurn(a, b) ==
    result.time_myr[a] # result.time_myr[b] =>
        \/ result.continent_lat_lon[a] # result.continent_lat_lon[b]
        \/ FullTurns(Sub(AngleAt(result.time_myr[a]), AngleAt(result.time_myr[b])))

\* C9 as stated: for positive angular velocity and every reference point, two
\* distinct times give different continent coordinates unless their rotation
\* angles differ by a multiple of 360 degrees.
C9_DistinctEverywhere ==
    pc = "returned" /\ Sign(Velocity) > 0 =>
        \A a, b \in 1..Len(result.time_myr) : DistinctOrFullTurn(a, b)

\* C9, amended: the same for every reference point that does not lie on the
\* rotation axis (at the Euler pole or its antipode).
C9_DistinctOffAxis ==
    pc = "returned" /\ Sign(Velocity) > 0 /\ ~OnAxis =>
        \A a, b \in 1..Len(result.time_myr) : DistinctOrFullTurn(a, b)

C9_Witness ==
    /\ pc = "returned"
    /\ Sign(Velocity) > 0
    /\ ~OnAxis
    /\ params.time_steps = 4
    /\ result.continent_lat_lon[1] # result.continent_lat_lon[2]
    /\ result.continent_lat_lon[2] # result.continent_lat_lon[3]
    /\ result.continent_lat_lon[1] = result.continent_lat_lon[4]
    /\ result.time_myr[1] # result.time_myr[4]

\* C10: the table holds min(max_rows, n) data rows, at strictly increasing
\* sample indices that start at 0 and, with two rows or more, end at n - 1;
\* the truncation line follows them exactly when they are fewer than n.
C10_DownSampled ==
    pc = "printed" =>
        LET n == Len(result.time_myr)
            rows == min(max_rows, n)
        IN  /\ Len(indices) = rows
            /\ \A k \in 1..Len(indices) : indices[k] \in 0..(n - 1)
            /\ \A k \in 1..(Len(indices) - 1) : indices[k] < indices[k + 1]
            /\ rows >= 1 => indices[1] = 0
            /\ rows >= 2 => indices[rows] = n - 1
            /\ Len(lines) = rows + (IF rows < n THEN 1 ELSE 0)
            /\ \A k \in 1..rows :
                  lines[k][1] = result.time_myr[indices[k] + 1]
            /\ rows < n => lines[rows + 1] = Truncated

C10_Witness ==
    /\ pc = "printed"
    /\ Len(result.time_myr) = 8
    /\ max_rows = 3
    /\ indices = <<0, 3, 7>>
    /\ Len(lines) = 4
    /\ lines[4] = Truncated

====
